---------------------------- MODULE Spec2Model ----------------------------
(***************************************************************************)
(* The line-patching scripts of frontend/: six fix_line_N.py scripts and   *)
(* fix_parameters.py.  Each script is a straight-line program: read one    *)
(* file, replace a substring on one (or two) hard-coded lines, write the   *)
(* file back, print a message.  A state of the model is the file on disk,  *)
(* the running script's variables and position, and its console output.    *)
(*                                                                         *)
(* Text is a sequence of one-character strings, so that substring search,  *)
(* replacement, splitting and joining are computed as Python computes      *)
(* them.  The file on disk holds the bytes; open(..., 'r') and             *)
(* open(..., 'w') are text-mode handles with the default newline=None, so  *)
(* reading translates "\r\n" and "\r" to "\n" and writing translates "\n"  *)
(* to os.linesep.                                                          *)
(*                                                                         *)
(* The scripts index lines 1031 .. 6964 of the file.  The thousands of     *)
(* lines that no script ever indexes are elided from the modelled          *)
(* document: Lead lines stand for the lines before the first target, the   *)
(* target lines follow one another, and up to Trail lines follow the last  *)
(* target.  Pos maps a source index to its place in the elided document.   *)
(***************************************************************************)
EXTENDS Integers, Sequences, FiniteSets

VARIABLES
    disk,      \* the bytes of creditCardAgent.ts on disk
    orig,      \* the bytes on disk before any script ran
    before,    \* the bytes on disk when the current script was started
    runs,      \* how many times each script has run to its end
    script,    \* the script being run, or NoScript
    pc,        \* the statement the running script is at
    f,         \* the file handles the running script holds open
    content,   \* fix_line_N.py: content
    lines,     \* lines
    out,       \* what the current script has printed
    writes     \* how many times the current script has written the file

vars == <<disk, orig, before, runs, script, pc, f, content, lines, out, writes>>

---------------------------------------------------------------------------
(* Bounds of the model. *)

\* lines of the modelled document that stand for the lines before line 1032
Lead == 1
\* most lines of the modelled document after the last target line
Trail == 2
\* most script runs in one behaviour of Spec
MaxRuns == 2

---------------------------------------------------------------------------
(* String literals of the scripts. *)

statementInfoComma ==
    <<"s", "t", "a", "t", "e", "m", "e", "n", "t", "I", "n", "f", "o", ",">>

processableStatementInfoComma ==
    <<"p", "r", "o", "c", "e", "s", "s", "a", "b", "l", "e",
      "S", "t", "a", "t", "e", "m", "e", "n", "t", "I", "n", "f", "o", ",">>

statementInfo ==
    <<"s", "t", "a", "t", "e", "m", "e", "n", "t", "I", "n", "f", "o">>

processableStatementInfo ==
    <<"p", "r", "o", "c", "e", "s", "s", "a", "b", "l", "e",
      "S", "t", "a", "t", "e", "m", "e", "n", "t", "I", "n", "f", "o">>

query == <<"q", "u", "e", "r", "y">>

\* '\n', the separator of split and join
NL == <<"\n">>

\* os.linesep of the platform of the hard-coded path (/Users/...: POSIX)
linesep == <<"\n">>

---------------------------------------------------------------------------
(* The scripts: what differs between the six fix_line_N.py files. *)

fix_line_1032 ==
    [name |-> "fix_line_1032", N |-> 1032, index |-> 1031,
     old |-> statementInfoComma, new |-> processableStatementInfoComma]

fix_line_1033 ==
    [name |-> "fix_line_1033", N |-> 1033, index |-> 1032,
     old |-> statementInfoComma, new |-> processableStatementInfoComma]

fix_line_5896 ==
    [name |-> "fix_line_5896", N |-> 5896, index |-> 5895,
     old |-> statementInfo, new |-> query]

fix_line_5955 ==
    [name |-> "fix_line_5955", N |-> 5955, index |-> 5954,
     old |-> statementInfo, new |-> query]

fix_line_6964 ==
    [name |-> "fix_line_6964", N |-> 6964, index |-> 6963,
     old |-> statementInfo, new |-> query]

fix_line_6965 ==
    [name |-> "fix_line_6965", N |-> 6965, index |-> 6964,
     old |-> statementInfo, new |-> query]

\* fix_parameters.py with the replacement of fix_line_1033.py on line 1033
fix_parameters_same ==
    [name |-> "fix_parameters",
     first  |-> [index |-> 1031, old |-> statementInfoComma,
                 new |-> processableStatementInfoComma],
     second |-> [index |-> 1032, old |-> statementInfoComma,
                 new |-> processableStatementInfoComma]]

\* fix_parameters.py: two replacements, each behind a len(lines) guard
fix_parameters ==
    [name |-> "fix_parameters",
     first  |-> [index |-> 1031, old |-> statementInfoComma,
                 new |-> processableStatementInfoComma],
     second |-> [index |-> 1032, old |-> processableStatementInfo,
                 new |-> query]]

FixLineScripts ==
    {fix_line_1032, fix_line_1033, fix_line_5896,
     fix_line_5955, fix_line_6964, fix_line_6965}

Scripts == FixLineScripts \cup {fix_parameters}

ScriptNames == {s.name : s \in Scripts}

NoScript == [name |-> "none"]

\* the source indexes some script reads or writes
TargetIndexes ==
    {s.index : s \in FixLineScripts}
        \cup {fix_parameters.first.index, fix_parameters.second.index}

\* the place of source index i in the elided document (0-based, as in Python)
Pos(i) == Lead + Cardinality({t \in TargetIndexes : t < i})

\* len(lines) > i
InRange(ls, i) == Len(ls) > Pos(i)

\* lines[i]
At(ls, i) == ls[Pos(i) + 1]

---------------------------------------------------------------------------
(* Python's str and file operations. *)

\* old in s
contains(s, old) ==
    \E i \in 1..(Len(s) - Len(old) + 1) : SubSeq(s, i, i + Len(old) - 1) = old

\* s.find(old) + 1: where the leftmost occurrence of old starts
find(s, old) ==
    CHOOSE i \in 1..(Len(s) - Len(old) + 1) :
        /\ SubSeq(s, i, i + Len(old) - 1) = old
        /\ \A j \in 1..(i - 1) : SubSeq(s, j, j + Len(old) - 1) # old

\* s.replace(old, new, 1): the leftmost occurrence only
replaceFirst(s, old, new) ==
    IF ~contains(s, old) THEN s
    ELSE LET k == find(s, old)
         IN  SubSeq(s, 1, k - 1) \o new \o SubSeq(s, k + Len(old), Len(s))

\* s.replace(old, new): every non-overlapping occurrence, left to right
RECURSIVE replace(_, _, _)
replace(s, old, new) ==
    IF ~contains(s, old) THEN s
    ELSE LET k == find(s, old)
         IN  SubSeq(s, 1, k - 1) \o new
                 \o replace(SubSeq(s, k + Len(old), Len(s)), old, new)

\* s.split('\n'): the pieces between the separators, never an empty list
RECURSIVE split(_)
split(s) ==
    IF ~contains(s, NL) THEN <<s>>
    ELSE LET k == find(s, NL)
         IN  <<SubSeq(s, 1, k - 1)>> \o split(SubSeq(s, k + 1, Len(s)))

\* '\n'.join(ls)
RECURSIVE join(_)
join(ls) ==
    IF ls = <<>> THEN <<>>
    ELSE IF Len(ls) = 1 THEN ls[1]
         ELSE ls[1] \o NL \o join(Tail(ls))

\* f.readlines(): the lines with their '\n' kept; no line for an empty rest
RECURSIVE readlines(_)
readlines(s) ==
    IF s = <<>> THEN <<>>
    ELSE IF ~contains(s, NL) THEN <<s>>
         ELSE LET k == find(s, NL)
              IN  <<SubSeq(s, 1, k)>> \o readlines(SubSeq(s, k + 1, Len(s)))

\* what f.writelines(ls) hands to the handle: the items one after another
RECURSIVE writelines(_)
writelines(ls) ==
    IF ls = <<>> THEN <<>>
    ELSE IF Len(ls) = 1 THEN ls[1]
         ELSE LET h == Len(ls) \div 2
              IN  writelines(SubSeq(ls, 1, h))
                      \o writelines(SubSeq(ls, h + 1, Len(ls)))

\* reading through a text handle (newline=None): "\r\n" and "\r" become "\n"
decode(b) ==
    writelines([i \in 1..Len(b) |->
        IF b[i] = "\r" THEN NL
        ELSE IF b[i] = "\n" /\ i > 1 /\ b[i - 1] = "\r" THEN <<>>
             ELSE <<b[i]>>])

\* writing through a text handle (newline=None): "\n" becomes os.linesep
encode(t) ==
    writelines([i \in 1..Len(t) |->
        IF t[i] = "\n" THEN linesep ELSE <<t[i]>>])

\* the replacement made on every line of ls, not on the target line alone
PatchLineAll(ls, p) ==
    [j \in 1..Len(ls) |-> replace(ls[j], p.old, p.new)]

\* ls[p.index] = ls[p.index].replace(p.old, p.new)
PatchLine(ls, p) ==
    [ls EXCEPT ![Pos(p.index) + 1] = replace(@, p.old, p.new)]

---------------------------------------------------------------------------
(* The documents the scripts are run on: the excerpts of a sample text. *)

Corpus ==
    << <<"a">>,
       <<"f", "(">> \o statementInfoComma,
       statementInfoComma \o statementInfo,
       processableStatementInfo \o <<" ">> \o statementInfoComma,
       <<>>,
       <<>>,
       <<"x", "\r">>,
       statementInfo,
       statementInfoComma \o statementInfoComma,
       processableStatementInfoComma,
       query,
       statementInfoComma,
       <<"b", "\r", "c">>,
       <<"s", "t", "a", "t", "e", "m", "e", "n", "t">> \o statementInfoComma
           \o <<"I", "n", "f", "o", ",">>,
       <<>> >>

\* most lines of a modelled document
MaxLines == Lead + Cardinality(TargetIndexes) + Trail

\* the bytes of every excerpt of 1 .. MaxLines lines, joined by "\n"
Documents ==
    UNION {{join(SubSeq(Corpus, a, a + n - 1)) :
               n \in 1..(IF Len(Corpus) - a + 1 < MaxLines
                         THEN Len(Corpus) - a + 1 ELSE MaxLines)} :
           a \in 1..Len(Corpus)}

NoRuns == [n \in ScriptNames |-> 0]

TotalRuns == runs["fix_line_1032"] + runs["fix_line_1033"]
             + runs["fix_line_5896"] + runs["fix_line_5955"]
             + runs["fix_line_6964"] + runs["fix_line_6965"]
             + runs["fix_parameters"]

Init ==
    /\ disk \in Documents
    /\ orig = disk
    /\ before = disk
    /\ runs = NoRuns
    /\ script = NoScript
    /\ pc = "idle"
    /\ f = {}
    /\ content = <<>>
    /\ lines = <<>>
    /\ out = <<>>
    /\ writes = 0

---------------------------------------------------------------------------
(* Starting a script and leaving it. *)

\* python3 <script>: a fresh process, nothing printed yet
Start(s) ==
    /\ script = NoScript
    /\ script' = s
    /\ pc' = "open_r"
    /\ before' = disk
    /\ out' = <<>>
    /\ writes' = 0
    /\ UNCHANGED <<disk, orig, runs, f, content, lines>>

\* the process ends, after the last statement or on the uncaught IndexError
Exit ==
    /\ pc \in {"done", "raised"}
    /\ runs' = [runs EXCEPT ![script.name] = @ + 1]
    /\ script' = NoScript
    /\ pc' = "idle"
    /\ f' = {}
    /\ content' = <<>>
    /\ lines' = <<>>
    /\ UNCHANGED <<disk, orig, before, out, writes>>

---------------------------------------------------------------------------
(* fix_line_N.py, statement by statement. *)

\* with open(path, 'r') as f:
OpenRead ==
    /\ script \in FixLineScripts
    /\ pc = "open_r"
    /\ f' = f \cup {"r"}
    /\ pc' = "read"
    /\ UNCHANGED <<disk, orig, before, runs, script, content, lines, out, writes>>

\* content = f.read()
ReadContent ==
    /\ script \in FixLineScripts
    /\ pc = "read"
    /\ content' = decode(disk)
    /\ pc' = "close_r"
    /\ UNCHANGED <<disk, orig, before, runs, script, f, lines, out, writes>>

\* the read handle left open: f = open(path, 'r') without with or close
CloseReadLeak ==
    /\ script \in FixLineScripts
    /\ pc = "close_r"
    /\ f' = f
    /\ pc' = "split"
    /\ UNCHANGED <<disk, orig, before, runs, script, content, lines, out, writes>>

\* the end of the with block closes the handle
CloseRead ==
    /\ script \in FixLineScripts
    /\ pc = "close_r"
    /\ f' = f \ {"r"}
    /\ pc' = "split"
    /\ UNCHANGED <<disk, orig, before, runs, script, content, lines, out, writes>>

\* lines = content.split('\n')
SplitLines ==
    /\ script \in FixLineScripts
    /\ pc = "split"
    /\ lines' = split(content)
    /\ pc' = "print_before"
    /\ UNCHANGED <<disk, orig, before, runs, script, f, content, out, writes>>

\* the IndexError swallowed: the script goes on to write the file back
PrintBeforeUnchecked ==
    /\ script \in FixLineScripts
    /\ pc = "print_before"
    /\ IF InRange(lines, script.index)
       THEN /\ out' = Append(out, [msg |-> "before", N |-> script.N,
                                   text |-> At(lines, script.index)])
            /\ pc' = "test"
       ELSE /\ out' = out
            /\ pc' = "open_w"
    /\ UNCHANGED <<disk, orig, before, runs, script, f, content, lines, writes>>

\* print(f"Line N before: '{lines[index]}'"): lines[index] raises IndexError
\* on a list of at most index items, before anything is printed
PrintBefore ==
    /\ script \in FixLineScripts
    /\ pc = "print_before"
    /\ IF InRange(lines, script.index)
       THEN /\ out' = Append(out, [msg |-> "before", N |-> script.N,
                                   text |-> At(lines, script.index)])
            /\ pc' = "test"
       ELSE /\ out' = out
            /\ pc' = "raised"
    /\ UNCHANGED <<disk, orig, before, runs, script, f, content, lines, writes>>

\* the test left out: the replacement and its message on every run
TestLineAlways ==
    /\ script \in FixLineScripts
    /\ pc = "test"
    /\ pc' = "replace"
    /\ UNCHANGED <<disk, orig, before, runs, script, f, content, lines, out, writes>>

\* if old in lines[index]:
TestLine ==
    /\ script \in FixLineScripts
    /\ pc = "test"
    /\ pc' = IF contains(At(lines, script.index), script.old)
             THEN "replace" ELSE "print_nochange"
    /\ UNCHANGED <<disk, orig, before, runs, script, f, content, lines, out, writes>>

\* lines[index] = lines[index].replace(old, new)
ReplaceLine ==
    /\ script \in FixLineScripts
    /\ pc = "replace"
    /\ lines' = PatchLine(lines, script)
    /\ pc' = "print_after"
    /\ UNCHANGED <<disk, orig, before, runs, script, f, content, out, writes>>

\* print(f"Line N after: '{lines[index]}'")
PrintAfter ==
    /\ script \in FixLineScripts
    /\ pc = "print_after"
    /\ out' = Append(out, [msg |-> "after", N |-> script.N,
                           text |-> At(lines, script.index)])
    /\ pc' = "open_w"
    /\ UNCHANGED <<disk, orig, before, runs, script, f, content, lines, writes>>

\* print("No change needed for line N")
PrintNoChange ==
    /\ script \in FixLineScripts
    /\ pc = "print_nochange"
    /\ out' = Append(out, [msg |-> "nochange", N |-> script.N, text |-> <<>>])
    /\ pc' = "open_w"
    /\ UNCHANGED <<disk, orig, before, runs, script, f, content, lines, writes>>

\* with open(path, 'w') as f: opening for writing truncates the file
OpenWrite ==
    /\ script \in FixLineScripts
    /\ pc = "open_w"
    /\ f' = f \cup {"w"}
    /\ disk' = <<>>
    /\ pc' = "write"
    /\ UNCHANGED <<orig, before, runs, script, content, lines, out, writes>>

\* f.write('\n'.join(lines))
WriteContent ==
    /\ script \in FixLineScripts
    /\ pc = "write"
    /\ disk' = disk \o encode(join(lines))
    /\ writes' = writes + 1
    /\ pc' = "close_w"
    /\ UNCHANGED <<orig, before, runs, script, f, content, lines, out>>

\* the end of the with block closes the handle
CloseWrite ==
    /\ script \in FixLineScripts
    /\ pc = "close_w"
    /\ f' = f \ {"w"}
    /\ pc' = "print_done"
    /\ UNCHANGED <<disk, orig, before, runs, script, content, lines, out, writes>>

\* print("Done!")
PrintDone ==
    /\ script \in FixLineScripts
    /\ pc = "print_done"
    /\ out' = Append(out, [msg |-> "done", N |-> script.N, text |-> <<>>])
    /\ pc' = "done"
    /\ UNCHANGED <<disk, orig, before, runs, script, f, content, lines, writes>>

FixLineStep ==
    \/ OpenRead
    \/ ReadContent
    \/ CloseRead
    \/ SplitLines
    \/ PrintBefore
    \/ TestLine
    \/ ReplaceLine
    \/ PrintAfter
    \/ PrintNoChange
    \/ OpenWrite
    \/ WriteContent
    \/ CloseWrite
    \/ PrintDone

---------------------------------------------------------------------------
(* fix_parameters.py, statement by statement. *)

\* with open(path, 'r') as f:
ParamsOpenRead ==
    /\ script = fix_parameters
    /\ pc = "open_r"
    /\ f' = f \cup {"r"}
    /\ pc' = "readlines"
    /\ UNCHANGED <<disk, orig, before, runs, script, content, lines, out, writes>>

\* lines = f.readlines()
ParamsReadlines ==
    /\ script = fix_parameters
    /\ pc = "readlines"
    /\ lines' = readlines(decode(disk))
    /\ pc' = "close_r"
    /\ UNCHANGED <<disk, orig, before, runs, script, f, content, out, writes>>

\* the end of the with block closes the handle
ParamsCloseRead ==
    /\ script = fix_parameters
    /\ pc = "close_r"
    /\ f' = f \ {"r"}
    /\ pc' = "fix_first"
    /\ UNCHANGED <<disk, orig, before, runs, script, content, lines, out, writes>>

\* if len(lines) > i: lines[i] = lines[i].replace(old, new)
Patch(ls, p) ==
    IF InRange(ls, p.index) THEN PatchLine(ls, p) ELSE ls

\* if len(lines) > 1031: lines[1031] = lines[1031].replace(...)
ParamsFixFirst ==
    /\ script = fix_parameters
    /\ pc = "fix_first"
    /\ lines' = Patch(lines, fix_parameters.first)
    /\ pc' = "fix_second"
    /\ UNCHANGED <<disk, orig, before, runs, script, f, content, out, writes>>

\* if len(lines) > 1032: lines[1032] = lines[1032].replace(...)
ParamsFixSecond ==
    /\ script = fix_parameters
    /\ pc = "fix_second"
    /\ lines' = Patch(lines, fix_parameters.second)
    /\ pc' = "open_w"
    /\ UNCHANGED <<disk, orig, before, runs, script, f, content, out, writes>>

\* with open(path, 'w') as f: opening for writing truncates the file
ParamsOpenWrite ==
    /\ script = fix_parameters
    /\ pc = "open_w"
    /\ f' = f \cup {"w"}
    /\ disk' = <<>>
    /\ pc' = "writelines"
    /\ UNCHANGED <<orig, before, runs, script, content, lines, out, writes>>

\* f.writelines(lines)
ParamsWritelines ==
    /\ script = fix_parameters
    /\ pc = "writelines"
    /\ disk' = disk \o encode(writelines(lines))
    /\ writes' = writes + 1
    /\ pc' = "close_w"
    /\ UNCHANGED <<orig, before, runs, script, f, content, lines, out>>

\* the end of the with block closes the handle
ParamsCloseWrite ==
    /\ script = fix_parameters
    /\ pc = "close_w"
    /\ f' = f \ {"w"}
    /\ pc' = "print_fixed"
    /\ UNCHANGED <<disk, orig, before, runs, script, content, lines, out, writes>>

\* print("Fixed parameter order")
ParamsPrint ==
    /\ script = fix_parameters
    /\ pc = "print_fixed"
    /\ out' = Append(out, [msg |-> "fixed", N |-> 0, text |-> <<>>])
    /\ pc' = "done"
    /\ UNCHANGED <<disk, orig, before, runs, script, f, content, lines, writes>>

ParamsStep ==
    \/ ParamsOpenRead
    \/ ParamsReadlines
    \/ ParamsCloseRead
    \/ ParamsFixFirst
    \/ ParamsFixSecond
    \/ ParamsOpenWrite
    \/ ParamsWritelines
    \/ ParamsCloseWrite
    \/ ParamsPrint

---------------------------------------------------------------------------
(* Spec: any scripts, one after another, MaxRuns runs at most. *)

StartAny == \E s \in Scripts : TotalRuns < MaxRuns /\ Start(s)

Next == StartAny \/ FixLineStep \/ ParamsStep \/ Exit

Spec == Init /\ [][Next]_vars

(* SpecOnce: the six fix_line_N.py scripts, each run once, in any order. *)

StartOnce == \E s \in FixLineScripts : runs[s.name] = 0 /\ Start(s)

NextOnce == StartOnce \/ FixLineStep \/ Exit

SpecOnce == Init /\ [][NextOnce]_vars

---------------------------------------------------------------------------
(* A whole run of a script as a function of the bytes on disk. *)

\* the document a fix_line_N.py script works on
Load(b) == split(decode(b))

\* fix_line_N.py from its first statement to its last, or to the IndexError
RunFixLine(s, b) ==
    LET ls == Load(b)
    IN  IF ~InRange(ls, s.index) THEN b
        ELSE IF contains(At(ls, s.index), s.old)
             THEN encode(join(PatchLine(ls, s)))
             ELSE encode(join(ls))

\* fix_parameters.py from its first statement to its last
RunParams(b) ==
    encode(writelines(
        Patch(Patch(readlines(decode(b)), fix_parameters.first),
              fix_parameters.second)))

RunScript(s, b) ==
    IF s = fix_parameters THEN RunParams(b) ELSE RunFixLine(s, b)

\* the scripts of ss run one after another
RECURSIVE RunSeq(_, _)
RunSeq(ss, b) ==
    IF ss = <<>> THEN b ELSE RunSeq(Tail(ss), RunScript(Head(ss), b))

\* the step-by-step run and the whole-run function agree
RunAgrees ==
    pc \in {"done", "raised"} => disk = RunScript(script, before)

---------------------------------------------------------------------------
(* Vocabulary of the properties. *)

Terminated == pc \in {"done", "raised"}

\* the kinds of the messages printed, in order
Msgs == [i \in 1..Len(out) |-> out[i].msg]

\* the replacements a script makes
Requests(s) ==
    IF s = fix_parameters
    THEN {fix_parameters.first, fix_parameters.second}
    ELSE {[index |-> s.index, old |-> s.old, new |-> s.new]}

\* where old occurs in s
Occurrences(s, old) ==
    {i \in 1..(Len(s) - Len(old) + 1) : SubSeq(s, i, i + Len(old) - 1) = old}

\* the items of ss one after another
RECURSIVE Flatten(_)
Flatten(ss) ==
    IF ss = <<>> THEN <<>>
    ELSE IF Len(ss) = 1 THEN ss[1]
         ELSE LET h == Len(ss) \div 2
              IN  Flatten(SubSeq(ss, 1, h)) \o Flatten(SubSeq(ss, h + 1, Len(ss)))

\* s with every occurrence of old replaced by new, stated position by
\* position (the occurrences of the scripts' search texts never overlap)
ReplacedAll(s, old, new) ==
    LET occ == Occurrences(s, old)
    IN  Flatten([i \in 1..Len(s) |->
            IF i \in occ THEN new
            ELSE IF \E k \in occ : k < i /\ i < k + Len(old) THEN <<>>
                 ELSE <<s[i]>>])

\* the document ls with every request of s that is in range applied
Patched(ls, s) ==
    [j \in 1..Len(ls) |->
        IF \E p \in Requests(s) : Pos(p.index) + 1 = j
        THEN LET p == CHOOSE q \in Requests(s) : Pos(q.index) + 1 = j
             IN  ReplacedAll(ls[j], p.old, p.new)
        ELSE ls[j]]

\* some request of s finds its search text on its target line of ls
Hits(ls, s) ==
    \E p \in Requests(s) : InRange(ls, p.index) /\ contains(At(ls, p.index), p.old)

\* the bytes hold no carriage return
NoCR(b) == \A i \in 1..Len(b) : b[i] # "\r"

---------------------------------------------------------------------------
(* C1: after a run that ends normally on a document whose target line is   *)
(* in range and holds the search text, re-loading the file gives the       *)
(* original document with every occurrence of the search text on the       *)
(* target line replaced, every other line identical and as many lines.     *)
C1_PatchedAndReloaded ==
    (pc = "done" /\ Hits(Load(before), script))
        => /\ Len(Load(disk)) = Len(Load(before))
           /\ Load(disk) = Patched(Load(before), script)
           /\ \A p \in Requests(script) :
                  InRange(Load(disk), p.index)
                      => ~contains(At(Load(disk), p.index), p.old)

\* a fix_line_N.py run has replaced two occurrences on its target line
C1_Witness ==
    /\ pc = "done"
    /\ script \in FixLineScripts
    /\ InRange(Load(before), script.index)
    /\ Cardinality(Occurrences(At(Load(before), script.index), script.old)) = 2
    /\ disk # before

---------------------------------------------------------------------------
\* the running script's first target index is beyond the document it loads
OutOfRange ==
    /\ script \in Scripts
    /\ \A p \in Requests(script) : ~InRange(Load(before), p.index)

(* C2: on a document with fewer lines than the script's target index, the  *)
(* run of every script ends normally, changes nothing and leaves the file  *)
(* as it was.                                                              *)
C2_OutOfRangeNeverRaises ==
    (Terminated /\ OutOfRange)
        => /\ pc = "done"
           /\ \A i \in 1..Len(out) : out[i].msg # "after"
           /\ disk = before

---------------------------------------------------------------------------
\* the running script is the one that has just run, and nothing else has
SecondRun ==
    /\ script \in Scripts
    /\ TotalRuns = 1
    /\ runs[script.name] = 1

(* C3: the second of two runs of the same script in succession ends        *)
(* normally, finds no occurrence of the search text on the target line,    *)
(* reports no change and leaves the file as the first run left it.         *)
C3_Idempotent ==
    (Terminated /\ SecondRun)
        => /\ pc = "done"
           /\ disk = before
           /\ ~Hits(Load(before), script)
           /\ script \in FixLineScripts => Msgs[2] = "nochange"

\* C3 on the documents on which the script does not fault
C3_IdempotentInRange ==
    (Terminated /\ SecondRun /\ ~(script \in FixLineScripts /\ OutOfRange))
        => /\ pc = "done"
           /\ disk = before
           /\ ~Hits(Load(before), script)
           /\ script \in FixLineScripts => Msgs[2] = "nochange"

---------------------------------------------------------------------------
\* the running fix_line_N.py script's target line is in range and does not
\* hold the search text
Absent ==
    /\ script \in FixLineScripts
    /\ InRange(Load(before), script.index)
    /\ ~contains(At(Load(before), script.index), script.old)

(* C4: when the target line is in range and does not hold the search text, *)
(* the run ends normally, reports that no change is needed, writes the     *)
(* file once, and the file written is identical to the file read.          *)
C4_AbsentUnchanged ==
    (Terminated /\ Absent)
        => /\ pc = "done"
           /\ Msgs = <<"before", "nochange", "done">>
           /\ writes = 1
           /\ disk = before

\* C4 on the files that hold no carriage return
C4_AbsentUnchangedNoCR ==
    (Terminated /\ Absent /\ NoCR(before))
        => /\ pc = "done"
           /\ Msgs = <<"before", "nochange", "done">>
           /\ writes = 1
           /\ disk = before

---------------------------------------------------------------------------
(* C5: loading a file and saving it with no patch applied reproduces its   *)
(* bytes, through split / join and through readlines / writelines.  The    *)
(* file is whole whenever no handle is open on it.                         *)
C5_RoundTrip ==
    f = {}
        => /\ encode(join(split(decode(disk)))) = disk
           /\ encode(writelines(readlines(decode(disk)))) = disk

\* C5 on the files that hold no carriage return
C5_RoundTripNoCR ==
    (f = {} /\ NoCR(disk))
        => /\ encode(join(split(decode(disk)))) = disk
           /\ encode(writelines(readlines(decode(disk)))) = disk

\* the text that is read is the text that is written, whatever the bytes
C5_RoundTripText ==
    f = {}
        => /\ join(split(decode(disk))) = decode(disk)
           /\ writelines(readlines(decode(disk))) = decode(disk)

---------------------------------------------------------------------------
\* the target line of the running fix_line_N.py script, re-loaded, differs
\* from the one it loaded
LineChanged ==
    At(Load(disk), script.index) # At(Load(before), script.index)

\* the output of a fix_line_N.py run that ended normally
FixLineOutput ==
    /\ Msgs \in {<<"before", "after", "done">>, <<"before", "nochange", "done">>}
    /\ Msgs[2] = "after" <=> LineChanged
    /\ \A i \in 1..3 : out[i].N = script.N
    /\ out[1].text = At(Load(before), script.index)
    /\ Msgs[2] = "after" => out[2].text = At(Load(disk), script.index)

\* the final message has been printed
FinalPrinted ==
    \E i \in 1..Len(out) : out[i].msg \in {"done", "fixed"}

\* the file has been written back and closed
WrittenBack ==
    /\ writes = 1
    /\ f = {}
    /\ disk = RunScript(script, before)

(* C6 as stated: every run that ends normally, of every script, prints     *)
(* 'Line N before', then 'Line N after' or 'No change needed for line N',  *)
(* then 'Done!'.                                                           *)
C6_OutputEveryScript ==
    (pc = "done" /\ script \in Scripts) => FixLineOutput

(* C6, amended: every run of a fix_line_N.py script that ends normally     *)
(* prints 'Line N before', then 'Line N after' if and only if the line     *)
(* was changed and 'No change needed for line N' otherwise, then 'Done!';  *)
(* a run of fix_parameters.py prints 'Fixed parameter order' and nothing   *)
(* else; the final message of either is printed only after the file has    *)
(* been written back.                                                      *)
C6_Output ==
    /\ (pc = "done" /\ script \in FixLineScripts) => FixLineOutput
    /\ (pc = "done" /\ script = fix_parameters) => Msgs = <<"fixed">>
    /\ (script \in Scripts /\ FinalPrinted)
           => /\ WrittenBack
              /\ Msgs[Len(out)] \in {"done", "fixed"}

\* a fix_line_N.py run that changed its line, and said so
C6_Witness ==
    /\ pc = "done"
    /\ script \in FixLineScripts
    /\ Msgs = <<"before", "after", "done">>
    /\ LineChanged

---------------------------------------------------------------------------
\* the statements that index or modify lines
Indexing ==
    {"print_before", "test", "replace", "print_after", "fix_first", "fix_second"}

(* C7: at most one handle is open at any time, the read handle is closed   *)
(* before any line is indexed or modified, and no handle is open when the  *)
(* run has ended, normally or on the indexing fault.                       *)
C7_HandlesReleased ==
    /\ Cardinality(f) <= 1
    /\ pc \in Indexing => "r" \notin f
    /\ Terminated => f = {}

\* a run has ended on the indexing fault, with handles opened before it
C7_Witness ==
    /\ pc = "raised"
    /\ content = decode(before)
    /\ f = {}

---------------------------------------------------------------------------
\* line 1033 of the document the behaviour started from holds 'statementInfo,'
Line1033Hit ==
    /\ InRange(Load(orig), fix_line_1033.index)
    /\ contains(At(Load(orig), fix_line_1033.index), fix_line_1033.old)

\* script a has run to its end, alone, and script b has now ended
RanThen(a, b) ==
    /\ script = b
    /\ Terminated
    /\ TotalRuns = 1
    /\ runs[a.name] = 1

(* C8: when line 1033 holds 'statementInfo,', running fix_line_1033.py and *)
(* fix_parameters.py in one order leaves a different file than running     *)
(* them in the other order; fix_line_1032.py and fix_parameters.py leave   *)
(* the same file in either order.                                          *)
C8_OrderMatters ==
    /\ (RanThen(fix_line_1033, fix_parameters) /\ Line1033Hit)
           => disk # RunSeq(<<fix_parameters, fix_line_1033>>, orig)
    /\ (RanThen(fix_parameters, fix_line_1033) /\ Line1033Hit)
           => disk # RunSeq(<<fix_line_1033, fix_parameters>>, orig)
    /\ RanThen(fix_line_1032, fix_parameters)
           => disk = RunSeq(<<fix_parameters, fix_line_1032>>, orig)
    /\ RanThen(fix_parameters, fix_line_1032)
           => disk = RunSeq(<<fix_line_1032, fix_parameters>>, orig)

\* fix_line_1033.py then fix_parameters.py on a document whose line 1033
\* holds 'statementInfo,'
C8_Witness ==
    /\ RanThen(fix_line_1033, fix_parameters)
    /\ Line1033Hit
    /\ pc = "done"

---------------------------------------------------------------------------
(* C9: when a fix_line_N.py script is run on a document too short for its  *)
(* target index, the file is never opened for writing: throughout the run  *)
(* the file on disk is as it was, and 'Done!' is never printed; the run    *)
(* ends on the fault.                                                      *)
C9_FaultBeforeWrite ==
    (script \in FixLineScripts /\ OutOfRange)
        => /\ disk = before
           /\ "w" \notin f
           /\ writes = 0
           /\ ~FinalPrinted
           /\ pc # "done"

\* a fix_line_N.py run has ended on the fault, on a file that is not empty
C9_Witness ==
    /\ script \in FixLineScripts
    /\ OutOfRange
    /\ pc = "raised"
    /\ disk # <<>>

---------------------------------------------------------------------------
\* the six scripts in the order of their target lines
InLineOrder ==
    <<fix_line_1032, fix_line_1033, fix_line_5896,
      fix_line_5955, fix_line_6964, fix_line_6965>>

\* the document the behaviour started from is long enough for all six
LongEnough == \A s \in FixLineScripts : InRange(Load(orig), s.index)

\* every one of the six scripts has run to its end
AllRan == script = NoScript /\ \A s \in FixLineScripts : runs[s.name] = 1

(* C10: on a document long enough for all six fix_line_N.py scripts, each  *)
(* run changes its own target line only and keeps the number of lines, and *)
(* once all six have run, in whatever order, the file is the one that      *)
(* running them in the order of their line numbers leaves.                 *)
C10_AnyOrder ==
    /\ (AllRan /\ LongEnough) => disk = RunSeq(InLineOrder, orig)
    /\ (pc = "done" /\ script \in FixLineScripts /\ LongEnough)
           => /\ Len(Load(disk)) = Len(Load(before))
              /\ \A j \in 1..Len(Load(disk)) :
                     j # Pos(script.index) + 1
                         => Load(disk)[j] = Load(before)[j]

\* all six have run on a long enough document, and changed it
C10_Witness ==
    /\ AllRan
    /\ LongEnough
    /\ disk # orig
    /\ \E s \in FixLineScripts :
           At(Load(disk), s.index) = At(Load(orig), s.index)

===========================================================================
